---- MODULE Spec2Model ----
(***************************************************************************)
(* Model of optar-rs (src/optar-rs/src/lib.rs): the layout geometry of a   *)
(* page (Settings), the extended Hamming encoder (parity, split, hamming)  *)
(* and the OptarWriter that packs payload bits into symbols, places them   *)
(* bit-plane interleaved on the page and rolls pages over.                 *)
(*                                                                         *)
(* A u64 register is the set of the positions of its 1 bits, positions     *)
(* 0..63; a shift drops what leaves the register.  A u8 is an integer      *)
(* 0..255.  A pixel buffer is the value it was filled with by              *)
(* from_pixel / reformat_buffer plus the pixels put since.                 *)
(***************************************************************************)
EXTENDS Integers, Sequences, FiniteSets, TLC

VARIABLES
    settings,        \* OptarWriter.settings (immutable after new)
    buffer,          \* OptarWriter.buffer
    accu,            \* OptarWriter.accu (u64 as a set of bit positions)
    hamming_symbol,  \* OptarWriter.hamming_symbol
    file_number,     \* OptarWriter.file_number
    files,           \* the images save_buffer has written, in order
    pc,              \* where feed_data stands
    cur,             \* the byte write_byte is working on
    bitpos,          \* bits of cur still to feed
    flushleft,       \* iterations left of the flush loop of feed_data
    result,          \* what feed_data returned
    bytes_read,      \* the bytes the stream has yielded
    fed,             \* the bits write_payloadbit has been called with
    syms,            \* the symbols written: accu at completion, symbol index, page,
                     \* length of fed, io_failed so far, the write_channelbit calls
    io_failed,       \* number of write_output calls that returned Err inside write_payloadbit
    lastpix,         \* buffer as it was before the latest symbol was written
    seq,             \* geometry: the sequence index handed to seq2xy
    xy,              \* geometry: what seq2xy returned
    hin,             \* codec: the register handed to hamming
    horder,          \* codec: the Hamming order
    cw,              \* codec: the codeword hamming returned
    flips            \* codec: the positions of cw flipped by the channel

vars == <<settings, buffer, accu, hamming_symbol, file_number, files, pc, cur,
          bitpos, flushleft, result, bytes_read, fed, syms, io_failed, lastpix,
          seq, xy, hin, horder, cw, flips>>

(***************************************************************************)
(* Bounds of the model.                                                    *)
(***************************************************************************)
MaxBytes == 2        \* longest input stream, in bytes
MaxChalf == 2        \* largest cross half size of the geometry runs
MaxGap == 2          \* largest gap_width (cpitch - 2*chalf) of the geometry runs
MaxCrosses == 3      \* largest xcrosses / ycrosses of the geometry runs
SeqBeyond == 2       \* sequence indices tried at and beyond total_bits
FullOrder == 3       \* Hamming orders up to this one are encoded for every input

(***************************************************************************)
(* Program constants.                                                      *)
(***************************************************************************)
RegBits == 64        \* u64::max_value().count_ones()
MinOrder == 2        \* smallest Hamming order: hamming reserves parity slots 0,1,2
MaxOrder == 6        \* largest order whose codeword (2^order bits) fits the register
PageCap == 9999      \* assert!(self.file_number < 9999)
Dark == 0            \* image::Luma([0u8])
Light == 255         \* image::Luma([255u8])

Pow2(n) == 2 ^ n

None == <<>>
Some(x, y) == <<x, y>>

(***************************************************************************)
(* FecOrder                                                                *)
(***************************************************************************)
Golay == [kind |-> "Golay", x |-> 1]
Hamming(x) == [kind |-> "Hamming", x |-> x]

large_bits(f) == IF f.kind = "Golay" THEN 24 ELSE Pow2(f.x)
small_bits(f) == IF f.kind = "Golay" THEN 12 ELSE large_bits(f) - 1 - f.x

(***************************************************************************)
(* Settings                                                                *)
(***************************************************************************)
DefaultSettings ==
    [border |-> 2, chalf |-> 3, cpitch |-> 24, text_width |-> 13, text_height |-> 24,
     xcrosses |-> 67, ycrosses |-> 87, fec_order |-> Golay]

data_width(s) == s.cpitch * (s.xcrosses - 1) + 2 * s.chalf
data_height(s) == s.cpitch * (s.ycrosses - 1) + 2 * s.chalf
width(s) == 2 * s.border + data_width(s)
height(s) == 2 * s.border + data_height(s) + s.text_height

narrow_height(s) == 2 * s.chalf
gap_width(s) == s.cpitch - 2 * s.chalf
narrow_width(s) == gap_width(s) * (s.xcrosses - 1)
narrow_pixels(s) == narrow_height(s) * narrow_width(s)

wide_height(s) == gap_width(s)
wide_width(s) == width(s) - 2 * s.border
wide_pixels(s) == wide_height(s) * wide_width(s)

rep_height(s) == narrow_height(s) + wide_height(s)
rep_pixels(s) == narrow_pixels(s) + wide_pixels(s)

total_bits(s) == rep_pixels(s) * (s.ycrosses - 1) + narrow_pixels(s)

fec_syms(s) == total_bits(s) \div large_bits(s.fec_order)
net_bits(s) == fec_syms(s) * small_bits(s.fec_order)
used_bits(s) == fec_syms(s) * large_bits(s.fec_order)

is_cross(s, x, y) == ((x % s.cpitch) < (2 * s.chalf)) /\ ((y % s.cpitch) < (2 * s.chalf))

\* seq2xy with the narrow strip's x taken without the leading cross width
seq2xy_NoCrossOffset(s, q) ==
    IF q >= total_bits(s) THEN None
    ELSE LET rep == q \div rep_pixels(s)
             r == q % rep_pixels(s)
             y0 == rep_height(s) * rep
         IN IF r >= narrow_pixels(s)
            THEN LET w == r - narrow_pixels(s)
                 IN Some(w % wide_width(s), y0 + narrow_height(s) + (w \div wide_width(s)))
            ELSE LET l == r % narrow_width(s)
                     gap == l \div gap_width(s)
                 IN Some(gap * s.cpitch + (l % gap_width(s)), y0 + (r \div narrow_width(s)))

seq2xy(s, q) ==
    IF q >= total_bits(s) THEN None
    ELSE LET rep == q \div rep_pixels(s)
             r == q % rep_pixels(s)
             y0 == rep_height(s) * rep
         IN IF r >= narrow_pixels(s)
            THEN LET w == r - narrow_pixels(s)
                 IN Some(w % wide_width(s), y0 + narrow_height(s) + (w \div wide_width(s)))
            ELSE LET l == r % narrow_width(s)
                     gap == l \div gap_width(s)
                 IN Some(2 * s.chalf + gap * s.cpitch + (l % gap_width(s)),
                         y0 + (r \div narrow_width(s)))

(***************************************************************************)
(* u64 registers as sets of bit positions                                  *)
(***************************************************************************)
Reg == 0 .. (RegBits - 1)
Shl(w, n) == {i + n : i \in {j \in w : j + n < RegBits}}
Shr(w, n) == {i - n : i \in {j \in w : j >= n}}
Xor(a, b) == (a \ b) \cup (b \ a)
LowMask(n) == {i \in Reg : i < n}            \* (1u64 << n) - 1
Bit(w, i) == IF i \in w THEN 1 ELSE 0
AsU8(w) == w \cap (0 .. 7)                   \* `as u8`

RECURSIVE ParityFold(_, _)
ParityFold(input, bit) ==
    IF bit > 0 THEN ParityFold(Xor(input, Shr(input, bit)), bit \div 2) ELSE input

parity(input) == ParityFold(input, RegBits \div 2) \cap {0}

split(input, bit) ==
    LET low == input \cap LowMask(bit)
        high == Xor(input, low)
    IN Shl(high, 1) \cup low

\* from_str_radix of ("1"*x + "0"*x) repeated 64/(2x) times: character k from the
\* left is bit (len-1-k), and it is '1' iff k mod 2x < x
Mask(x) ==
    LET unit == 2 * x
        len == (RegBits \div unit) * unit
    IN {b \in 0 .. (len - 1) : ((len - 1 - b) % unit) < x}

RECURSIVE SplitLoop(_, _, _)
SplitLoop(input, bit, order) ==
    IF bit > order THEN input
    ELSE SplitLoop(split(input, Pow2(bit - 1)), bit + 1, order)

RECURSIVE ParityLoop(_, _)
ParityLoop(input, bit) ==
    IF bit < 1 THEN input
    ELSE LET x == Pow2(bit - 1)
         IN ParityLoop(input \cup Shl(parity(input \cap Mask(x)), x), bit - 1)

\* hamming without the final overall parity bit
hamming_NoOverall(input, order) ==
    LET masked == input \cap LowMask(small_bits(Hamming(order)))
        shifted == Shl(masked, 3)
        slotted == IF order >= 3 THEN SplitLoop(shifted, 3, order) ELSE shifted
    IN ParityLoop(slotted, order)

hamming(input, order) ==
    LET masked == input \cap LowMask(small_bits(Hamming(order)))
        shifted == Shl(masked, 3)
        slotted == IF order >= 3 THEN SplitLoop(shifted, 3, order) ELSE shifted
        checked == ParityLoop(slotted, order)
    IN checked \cup parity(checked)

(***************************************************************************)
(* The pixel buffer                                                        *)
(***************************************************************************)
NoPixels == [p \in {} |-> Light]

\* ImageBuffer::from_pixel(width, height, Luma([255]))
from_pixel == [formatted |-> FALSE, px |-> NoPixels]

put_pixel(buf, x, y, luma) == [buf EXCEPT !.px = (<<x, y>> :> luma) @@ @]

\* num::range_step(start, stop, step): start, start+step, ... below stop
range_step(start, stop, step) == {v \in start .. (stop - 1) : (v - start) % step = 0}

\* the condition under which border() paints pixel (x, y) dark
border_hit(s, x, y) ==
    \/ x <= s.border
    \/ x >= width(s) - s.border
    \/ y <= s.border
    \/ y >= width(s) - s.border - s.text_height

\* the (x, y) at which crosses() calls cross
crosses(s) ==
    {<<x, y>> : x \in range_step(s.border, width(s) - s.border - 2 * s.chalf, s.cpitch),
                y \in range_step(s.border, height(s) - s.text_height - s.border - 2 * s.chalf,
                                 s.cpitch)}

\* whether cross(cx, cy) paints pixel (x, y), and with which luma
cross_covers(s, cx, cy, x, y) ==
    /\ cx <= x /\ x < cx + 2 * s.chalf
    /\ cy <= y /\ y < cy + 2 * s.chalf
cross_luma(s, cx, cy, x, y) ==
    IF (x < cx + s.chalf) = (y < cy + s.chalf) THEN Dark ELSE Light

\* pixel (x, y) of a buffer right after reformat_buffer: blank, then border(),
\* then crosses() (crosses do not overlap when cpitch > 2*chalf)
reformatted_pixel(s, x, y) ==
    LET hit == {c \in crosses(s) : cross_covers(s, c[1], c[2], x, y)}
    IN IF hit # {} THEN LET c == CHOOSE c \in hit : TRUE IN cross_luma(s, c[1], c[2], x, y)
       ELSE IF border_hit(s, x, y) THEN Dark
       ELSE Light

reformat_buffer == [formatted |-> TRUE, px |-> NoPixels]

get_pixel(s, buf, x, y) ==
    IF <<x, y>> \in DOMAIN buf.px THEN buf.px[<<x, y>>]
    ELSE IF buf.formatted THEN reformatted_pixel(s, x, y)
    ELSE Light

(***************************************************************************)
(* OptarWriter.  A writer value w holds the struct's fields, the files     *)
(* written so far, the write_channelbit calls of the running               *)
(* write_payloadbit and the outcome of the running call: "Ok", "Err" (an   *)
(* io::Error) or "Panic".                                                  *)
(***************************************************************************)
Digit(n, d) == (n \div d) % 10
\* format!("{:04}", n) for n below 10000
Fmt04(n) == <<Digit(n, 1000), Digit(n, 100), Digit(n, 10), Digit(n, 1)>>

new(s) ==
    [buffer |-> from_pixel, accu |-> {0}, hamming_symbol |-> 0, file_number |-> 0,
     files |-> <<>>, calls |-> <<>>, status |-> "Ok"]

\* ok: whether image::save_buffer succeeds
write_output(w, ok) ==
    IF ok
    THEN [w EXCEPT !.files = Append(@, [name |-> Fmt04(w.file_number), image |-> w.buffer]),
                   !.status = "Ok"]
    ELSE [w EXCEPT !.status = "Err"]

new_file(w, ok) ==
    LET w1 == IF w.file_number > 0 THEN write_output(w, ok) ELSE [w EXCEPT !.status = "Ok"]
    IN IF w1.status = "Err" THEN w1
       ELSE IF ~(w1.file_number < PageCap) THEN [w1 EXCEPT !.status = "Panic"]
       ELSE [w1 EXCEPT !.file_number = @ + 1, !.buffer = reformat_buffer]

\* the luma write_channelbit puts for a bit already masked to its LSB; the result of
\* bit.wrapping_sub(1) is dropped, so the luma is the bit itself
channel_luma(bit) == bit

write_channelbit(w, s, bit, q) ==
    LET b == bit % 2
        c == seq2xy(s, q)
        w1 == [w EXCEPT !.calls = Append(@, [bit |-> bit, seq |-> q])]
    IN IF c = None THEN [w1 EXCEPT !.status = "Panic"]
       ELSE [w1 EXCEPT !.buffer = put_pixel(@, c[1] + s.border, c[2] + s.border,
                                            channel_luma(b))]

\* (w >> shift) as u8, as an integer
ShiftedU8(w, shift) ==
    LET r == AsU8(Shr(w, shift))
    IN Bit(r, 0) + 2 * Bit(r, 1) + 4 * Bit(r, 2) + 8 * Bit(r, 3) + 16 * Bit(r, 4)
       + 32 * Bit(r, 5) + 64 * Bit(r, 6) + 128 * Bit(r, 7)

\* the rollover test of write_payloadbit, with > for >=
page_full_Late(w, s) == w.hamming_symbol > fec_syms(s)

\* the rollover test of write_payloadbit
page_full(w, s) == w.hamming_symbol >= fec_syms(s)

\* the sequence index of the codeword bit at `shift`, symbol-contiguous
channel_seq_Contiguous(w, s, shift) ==
    w.hamming_symbol * large_bits(s.fec_order) + (large_bits(s.fec_order) - 1 - shift)

\* the sequence index of the codeword bit at `shift`
channel_seq(w, s, shift) ==
    w.hamming_symbol + (large_bits(s.fec_order) - 1 - shift) * fec_syms(s)

\* the loop `for shift in (0..large_bits).rev()`, from `shift` down to 0
RECURSIVE channel_loop(_, _, _)
channel_loop(w, s, shift) ==
    IF shift < 0 \/ w.status = "Panic" THEN w
    ELSE channel_loop(write_channelbit(w, s, ShiftedU8(w.accu, shift), channel_seq(w, s, shift)),
                      s, shift - 1)

write_payloadbit(w, s, bit, ok) ==
    LET a1 == Shl(w.accu, 1) \cup (IF bit % 2 = 1 THEN {0} ELSE {})
        w0 == [w EXCEPT !.accu = a1, !.calls = <<>>, !.status = "Ok"]
    IN IF small_bits(s.fec_order) \notin a1 THEN w0
       ELSE IF s.fec_order.kind = "Golay" THEN [w0 EXCEPT !.status = "Panic"]
       ELSE LET w1 == [w0 EXCEPT !.accu = hamming(a1, s.fec_order.x)]
                w2 == IF page_full(w1, s) THEN new_file(w1, ok) ELSE w1
            IN IF w2.status # "Ok" THEN w2
               ELSE LET w3 == IF page_full(w1, s) THEN [w2 EXCEPT !.hamming_symbol = 0] ELSE w2
                        w4 == channel_loop(w3, s, large_bits(s.fec_order) - 1)
                    IN IF w4.status # "Ok" THEN w4
                       ELSE [w4 EXCEPT !.accu = {0}, !.hamming_symbol = @ + 1]

(***************************************************************************)
(* feed_data as a state machine.  pc: "feed" at the head of the loop over  *)
(* the stream's bytes, "byte" inside write_byte, "flush" in the flush      *)
(* loop and before the final write_output, "done" after the return,        *)
(* "panic" after a panic.                                                  *)
(***************************************************************************)
TinyGeometry ==
    [border |-> 1, chalf |-> 1, cpitch |-> 3, text_width |-> 13, text_height |-> 1,
     xcrosses |-> 2, ycrosses |-> 2, fec_order |-> Golay]

RunSettings ==
    { [TinyGeometry EXCEPT !.fec_order = Hamming(2)],                   \* 9 bits, 2 symbols
      [TinyGeometry EXCEPT !.fec_order = Hamming(3)],                   \* 9 bits, 1 symbol
      [TinyGeometry EXCEPT !.fec_order = Hamming(4)],                   \* 9 bits, no symbol
      [TinyGeometry EXCEPT !.ycrosses = 3, !.fec_order = Hamming(3)],   \* 16 bits, 2 symbols
      [TinyGeometry EXCEPT !.xcrosses = 1, !.ycrosses = 1, !.fec_order = Hamming(2)], \* 0 bits
      [DefaultSettings EXCEPT !.fec_order = Hamming(4)],
      DefaultSettings }

Bytes == {0, 165, 255}

Writer ==
    [buffer |-> buffer, accu |-> accu, hamming_symbol |-> hamming_symbol,
     file_number |-> file_number, files |-> files, calls |-> <<>>, status |-> "Ok"]

\* the part of the state no run of feed_data touches
CodecIdle == hin = {} /\ horder = 0 /\ cw = {} /\ flips = {}
GeomIdle == seq = 0 /\ xy = None
RunIdle ==
    LET w == new(DefaultSettings)
    IN /\ buffer = w.buffer /\ accu = w.accu /\ hamming_symbol = w.hamming_symbol
       /\ file_number = w.file_number /\ files = w.files
       /\ cur = 0 /\ bitpos = 0 /\ flushleft = 0 /\ result = "none"
       /\ bytes_read = <<>> /\ fed = <<>> /\ syms = <<>> /\ io_failed = 0
       /\ lastpix = w.buffer

Init ==
    /\ settings \in RunSettings
    /\ pc = "feed"
    /\ RunIdle /\ GeomIdle /\ CodecIdle

\* the state after write_payloadbit(bit) returned w from the state before it
Stored(w, bit) ==
    /\ buffer' = w.buffer
    /\ accu' = w.accu
    /\ hamming_symbol' = w.hamming_symbol
    /\ file_number' = w.file_number
    /\ files' = w.files
    /\ fed' = Append(fed, bit % 2)
    /\ io_failed' = IF w.status = "Err" THEN io_failed + 1 ELSE io_failed
    /\ IF w.calls # <<>>
       THEN /\ syms' = Append(syms, [input |-> Shl(accu, 1) \cup (IF bit % 2 = 1 THEN {0} ELSE {}),
                                     index |-> IF w.status = "Ok" THEN w.hamming_symbol - 1
                                               ELSE w.hamming_symbol,
                                     page |-> w.file_number,
                                     at |-> Len(fed) + 1,
                                     errs |-> io_failed,
                                     calls |-> w.calls])
            /\ lastpix' = IF file_number' # file_number THEN reformat_buffer ELSE buffer
       ELSE UNCHANGED <<syms, lastpix>>

NextByte ==
    /\ pc = "feed"
    /\ Len(bytes_read) < MaxBytes
    /\ \E c \in Bytes :
          /\ cur' = c
          /\ bytes_read' = Append(bytes_read, c)
    /\ bitpos' = 8
    /\ pc' = "byte"
    /\ UNCHANGED <<settings, buffer, accu, hamming_symbol, file_number, files, flushleft,
                   result, fed, syms, io_failed, lastpix, seq, xy, hin, horder, cw, flips>>

\* the stream yields Err: `c?` returns it
ReadError ==
    /\ pc = "feed"
    /\ result' = "Err"
    /\ pc' = "done"
    /\ UNCHANGED <<settings, buffer, accu, hamming_symbol, file_number, files, cur, bitpos,
                   flushleft, bytes_read, fed, syms, io_failed, lastpix, seq, xy, hin,
                   horder, cw, flips>>

EndOfStream ==
    /\ pc = "feed"
    /\ flushleft' = small_bits(settings.fec_order) - 1
    /\ pc' = "flush"
    /\ UNCHANGED <<settings, buffer, accu, hamming_symbol, file_number, files, cur, bitpos,
                   result, bytes_read, fed, syms, io_failed, lastpix, seq, xy, hin, horder,
                   cw, flips>>

\* one iteration of write_byte's loop; an Err leaves write_byte, and feed_data drops it
WriteByteBit ==
    /\ pc = "byte"
    /\ \E ok \in BOOLEAN :
          LET bit == (cur \div Pow2(bitpos - 1)) % 256
              w == write_payloadbit(Writer, settings, bit, ok)
          IN /\ Stored(w, bit)
             /\ bitpos' = IF w.status = "Ok" THEN bitpos - 1 ELSE bitpos
             /\ pc' = IF w.status = "Panic" THEN "panic"
                      ELSE IF w.status = "Err" \/ bitpos = 1 THEN "feed"
                      ELSE "byte"
    /\ UNCHANGED <<settings, cur, flushleft, result, bytes_read, seq, xy, hin, horder, cw,
                   flips>>

\* one iteration of the flush loop; what write_payloadbit returns is dropped
FlushBit ==
    /\ pc = "flush"
    /\ flushleft > 0
    /\ \E ok \in BOOLEAN :
          LET w == write_payloadbit(Writer, settings, 0, ok)
          IN /\ Stored(w, 0)
             /\ pc' = IF w.status = "Panic" THEN "panic" ELSE "flush"
    /\ flushleft' = flushleft - 1
    /\ UNCHANGED <<settings, cur, bitpos, result, bytes_read, seq, xy, hin, horder, cw, flips>>

\* the final self.write_output(), whose result feed_data returns
Finish ==
    /\ pc = "flush"
    /\ flushleft = 0
    /\ \E ok \in BOOLEAN :
          LET w == write_output(Writer, ok)
          IN /\ files' = w.files
             /\ result' = w.status
    /\ pc' = "done"
    /\ UNCHANGED <<settings, buffer, accu, hamming_symbol, file_number, cur, bitpos, flushleft,
                   bytes_read, fed, syms, io_failed, lastpix, seq, xy, hin, horder, cw, flips>>

Next == NextByte \/ ReadError \/ EndOfStream \/ WriteByteBit \/ FlushBit \/ Finish

Spec == Init /\ [][Next]_vars

(***************************************************************************)
(* Properties of a run of feed_data                                        *)
(***************************************************************************)
IsHamming == settings.fec_order.kind = "Hamming"
Order == settings.fec_order.x
LargeBits == large_bits(settings.fec_order)
SmallBits == small_bits(settings.fec_order)
Persisted(number) == \E i \in 1 .. Len(files) : files[i].name = Fmt04(number)

\* C1: page rollover never loses data: every reformatting of the buffer was preceded
\* by a write_output of the page it held, the first page included, so the symbols of
\* every page left behind, and of every page once feed_data returned Ok, are on a
\* persisted page.
C1_RolloverPersistsPage ==
    fec_syms(settings) >= 1 =>
    /\ Len(files) >= file_number
    /\ \A k \in 1 .. Len(syms) :
          (syms[k].page < file_number \/ (pc = "done" /\ result = "Ok"))
             => Persisted(syms[k].page)

\* C2: a write_output failure during a rollover inside write_payloadbit ends the run:
\* feed_data has returned the error, so no byte is read and no bit written after it.
C2_FailureAbortsRun ==
    io_failed > 0 => (pc = "done" /\ result = "Err")

\* C3: the k-th page persisted is named with number k, so the first is 0001 and no
\* page is ever persisted as 0000.
C3_PagesNumberedFromOne ==
    \A k \in 1 .. Len(files) : files[k].name = Fmt04(k)

\* the write_channelbit calls of the latest symbol that no later call of the same
\* symbol overwrote
LastCalls == IF syms = <<>> THEN <<>> ELSE syms[Len(syms)].calls
Effective(i) ==
    /\ seq2xy(settings, LastCalls[i].seq) # None
    /\ \A j \in (i + 1) .. Len(LastCalls) : LastCalls[j].seq # LastCalls[i].seq
CallPixel(i) ==
    LET c == seq2xy(settings, LastCalls[i].seq)
    IN <<c[1] + settings.border, c[2] + settings.border>>

\* C4: write_channelbit(bit, seq) sets the pixel at seq2xy(seq) + (border, border) dark
\* (luma 0) when bit's LSB is 1 and light (luma 255) when it is 0, and no other pixel.
C4_PixelPolarity ==
    /\ \A i \in 1 .. Len(LastCalls) :
          Effective(i) =>
             get_pixel(settings, buffer, CallPixel(i)[1], CallPixel(i)[2])
                = (IF LastCalls[i].bit % 2 = 1 THEN Dark ELSE Light)
    /\ \A p \in DOMAIN buffer.px :
          \/ \E i \in 1 .. Len(LastCalls) : Effective(i) /\ CallPixel(i) = p
          \/ p \in DOMAIN lastpix.px /\ lastpix.px[p] = buffer.px[p]

\* C9: after reformat_buffer a fiducial is drawn at each of the xcrosses * ycrosses grid
\* positions (border + i*cpitch, border + j*cpitch), the last column and row included,
\* so every data-area coordinate with is_cross true lies under a drawn fiducial.
C9_AllCrossesDrawn ==
    (buffer.formatted /\ fec_syms(settings) >= 1) =>
       LET drawn == crosses(settings)
       IN /\ \A i \in 0 .. (settings.xcrosses - 1), j \in 0 .. (settings.ycrosses - 1) :
                <<settings.border + i * settings.cpitch,
                  settings.border + j * settings.cpitch>> \in drawn
          /\ \A x \in 0 .. (data_width(settings) - 1), y \in 0 .. (data_height(settings) - 1) :
                is_cross(settings, x, y) =>
                   \E c \in drawn : cross_covers(settings, c[1], c[2],
                                                 x + settings.border, y + settings.border)

\* a bit sequence, first bit most significant, as a register
BitsToReg(bits) == {Len(bits) - i : i \in {j \in 1 .. Len(bits) : bits[j] = 1}}

PrevAt(k) == IF k = 1 THEN 0 ELSE syms[k - 1].at
\* the bits write_payloadbit was called with since symbol k-1 was written
Since(k) == SubSeq(fed, PrevAt(k) + 1, syms[k].at)
\* no write_output failed between the writing of symbol k-1 and that of symbol k
NoFailureBefore(k) == syms[k].errs = (IF k = 1 THEN 0 ELSE syms[k - 1].errs)
\* symbols written before symbol k on the same page
OnPageBefore(k) == Cardinality({j \in 1 .. (k - 1) : syms[j].page = syms[k].page})
Complete(k) == Len(syms[k].calls) = LargeBits

\* the calls of symbol k are the bits of codeword, most significant first, at
\* index, index + fec_syms, index + 2*fec_syms, ...
Placed(k, codeword, index) ==
    \A p \in 0 .. (LargeBits - 1) :
       /\ syms[k].calls[p + 1].bit % 2 = Bit(codeword, LargeBits - 1 - p)
       /\ syms[k].calls[p + 1].seq = index + p * fec_syms(settings)

ExampleSettings == [DefaultSettings EXCEPT !.fec_order = Hamming(4)]
ExampleRun == settings = ExampleSettings /\ bytes_read = <<165>> /\ Len(syms) >= 1

InputBit(i) == (bytes_read[((i - 1) \div 8) + 1] \div Pow2(7 - ((i - 1) % 8))) % 2
CeilDiv(a, b) == (a + b - 1) \div b

\* C8: when feed_data returns, it has written exactly ceil(8n / small_bits) symbols for
\* the n bytes read; the bits fed are the input bits in order, then zero padding; symbol
\* k carries bits (k-1)*small_bits+1 .. k*small_bits of them; the accumulator holds only
\* padding zeros above its marker; and when 8n = net_bits no rollover happened.
C8_FlushLeavesNoPartialSymbol ==
    (IsHamming /\ fec_syms(settings) >= 1 /\ pc = "done" /\ result = "Ok") =>
       LET n == Len(bytes_read) IN
       /\ Len(syms) = CeilDiv(8 * n, SmallBits)
       /\ Len(fed) = 8 * n + SmallBits - 1
       /\ \A i \in 1 .. Len(fed) : fed[i] = (IF i <= 8 * n THEN InputBit(i) ELSE 0)
       /\ \A k \in 1 .. Len(syms) :
             /\ syms[k].at = k * SmallBits
             /\ syms[k].input \cap LowMask(SmallBits) = BitsToReg(Since(k))
       /\ accu = {Len(fed) - SmallBits * Len(syms)}
       /\ (8 * n = net_bits(settings)) => file_number = 0

\* C8 on the runs in which no write_output failed during a rollover
C8_WithoutFailure ==
    io_failed = 0 => C8_FlushLeavesNoPartialSymbol

\* C10 as stated: under Hamming with cpitch > 2*chalf every write_channelbit(bit, seq) has
\* seq < used_bits <= total_bits, so seq2xy(seq) is never None and the unwrap never
\* panics; a codeword is only written at hamming_symbol < fec_syms.
C10_AsStated ==
    (IsHamming /\ settings.cpitch > 2 * settings.chalf) =>
       /\ used_bits(settings) <= total_bits(settings)
       /\ \A k \in 1 .. Len(syms) :
             /\ syms[k].index < fec_syms(settings)
             /\ \A i \in 1 .. Len(syms[k].calls) :
                   /\ syms[k].calls[i].seq < used_bits(settings)
                   /\ seq2xy(settings, syms[k].calls[i].seq) # None
       /\ pc # "panic"

\* C10 amended: the same for the configurations whose page holds at least one symbol,
\* fec_syms >= 1.
C10_ValidSequenceIndices ==
    fec_syms(settings) >= 1 => C10_AsStated

C10_Witness ==
    /\ IsHamming /\ fec_syms(settings) >= 1 /\ file_number >= 2
    /\ \E k \in 1 .. Len(syms) :
          /\ syms[k].index = fec_syms(settings) - 1
          /\ syms[k].calls[LargeBits].seq = used_bits(settings) - 1
          /\ syms[k].page >= 1

(***************************************************************************)
(* seq2xy on its own: a Settings is drawn, then seq2xy is applied to       *)
(* sequence indices up to and beyond total_bits.                           *)
(***************************************************************************)
GeomSettings ==
    {[DefaultSettings EXCEPT !.chalf = h, !.cpitch = 2 * h + g, !.xcrosses = a, !.ycrosses = b] :
        h \in 0 .. MaxChalf, g \in 1 .. MaxGap, a \in 1 .. MaxCrosses, b \in 1 .. MaxCrosses}

InitGeom ==
    /\ settings \in GeomSettings
    /\ pc = "geom"
    /\ RunIdle /\ GeomIdle /\ CodecIdle

Seq2xy ==
    /\ pc = "geom"
    /\ \E q \in 0 .. (total_bits(settings) + SeqBeyond) :
          /\ seq' = q
          /\ xy' = seq2xy(settings, q)
    /\ pc' = "geom_xy"
    /\ UNCHANGED <<settings, buffer, accu, hamming_symbol, file_number, files, cur, bitpos,
                   flushleft, result, bytes_read, fed, syms, io_failed, lastpix, hin, horder,
                   cw, flips>>

NextGeom == Seq2xy

SpecGeom == InitGeom /\ [][NextGeom]_vars

\* the coordinates of the data rectangle that are not under a cross
NonCross(s) ==
    {c \in (0 .. (data_width(s) - 1)) \X (0 .. (data_height(s) - 1)) : ~is_cross(s, c[1], c[2])}

\* C5: with cpitch > 2*chalf and xcrosses, ycrosses >= 1, seq2xy is None exactly for
\* seq >= total_bits, and on [0, total_bits) it is a bijection onto the coordinates of
\* the data rectangle for which is_cross is false.
C5_Seq2xyBijection ==
    /\ pc = "geom_xy" =>
          /\ (xy = None) <=> (seq >= total_bits(settings))
          /\ xy # None =>
                /\ xy \in NonCross(settings)
                /\ \A q \in 0 .. (total_bits(settings) - 1) :
                      q # seq => seq2xy(settings, q) # xy
    /\ pc = "geom" =>
          {seq2xy(settings, q) : q \in 0 .. (total_bits(settings) - 1)} = NonCross(settings)

C5_Witness ==
    /\ pc = "geom_xy" /\ settings.chalf >= 1 /\ settings.xcrosses >= 2 /\ settings.ycrosses >= 2
    /\ seq = total_bits(settings) - 1
    /\ xy = <<data_width(settings) - 2 * settings.chalf - 1, data_height(settings) - 1>>

(***************************************************************************)
(* hamming on its own: an order and a register are drawn, hamming encodes  *)
(* the register, and the channel flips up to two bits of the codeword.     *)
(***************************************************************************)
HammingInputs(order) ==
    LET small == small_bits(Hamming(order))
    IN IF order <= FullOrder
       THEN (SUBSET LowMask(small)) \cup {Reg}
       ELSE {{}, Reg, {i \in Reg : i % 2 = 0}, {i \in Reg : i % 2 = 1}}
            \cup {{i} : i \in 0 .. small}

InitFec ==
    /\ horder \in MinOrder .. MaxOrder
    /\ hin \in HammingInputs(horder)
    /\ cw = {} /\ flips = {}
    /\ settings = DefaultSettings
    /\ pc = "fec"
    /\ RunIdle /\ GeomIdle

Encode ==
    /\ pc = "fec"
    /\ cw' = hamming(hin, horder)
    /\ pc' = "fec_coded"
    /\ UNCHANGED <<settings, buffer, accu, hamming_symbol, file_number, files, cur, bitpos,
                   flushleft, result, bytes_read, fed, syms, io_failed, lastpix, seq, xy, hin,
                   horder, flips>>

Flip ==
    /\ pc = "fec_coded"
    /\ Cardinality(flips) < 2
    /\ \E i \in LowMask(large_bits(Hamming(horder))) \ flips : flips' = flips \cup {i}
    /\ UNCHANGED <<settings, buffer, accu, hamming_symbol, file_number, files, pc, cur, bitpos,
                   flushleft, result, bytes_read, fed, syms, io_failed, lastpix, seq, xy, hin,
                   horder, cw>>

NextFec == Encode \/ Flip

SpecFec == InitFec /\ [][NextFec]_vars

\* the word received: the codeword with the flipped positions inverted
Received == Xor(cw, flips)
\* the parity check of parity position 2^(k-1): over the positions whose index has bit k-1
Check(word, k) == Cardinality({p \in word : (p \div Pow2(k - 1)) % 2 = 1}) % 2
RECURSIVE Syndrome(_, _)
Syndrome(word, k) == IF k = 0 THEN 0 ELSE Pow2(k - 1) * Check(word, k) + Syndrome(word, k - 1)
Overall(word) == Cardinality(word) % 2

\* C6: for orders 2..6 hamming(x, order) is below 2^large_bits; a codeword passes every
\* check; with one bit flipped the overall parity is odd and the syndrome is the flipped
\* position; with two bits flipped the overall parity is even and the syndrome non-zero,
\* so the word is no codeword and no single-flip word.
C6_HammingSecDed ==
    pc = "fec_coded" =>
       /\ cw \subseteq LowMask(large_bits(Hamming(horder)))
       /\ Cardinality(flips) = 0 =>
             Overall(Received) = 0 /\ Syndrome(Received, horder) = 0
       /\ Cardinality(flips) = 1 =>
             Overall(Received) = 1 /\ flips = {Syndrome(Received, horder)}
       /\ Cardinality(flips) = 2 =>
             Overall(Received) = 0 /\ Syndrome(Received, horder) # 0

C6_Witness ==
    /\ pc = "fec_coded" /\ horder = MaxOrder /\ hin = Reg
    /\ flips = {0, RegBits - 1}

====
